---- MODULE Spec2Model ----
(***************************************************************************)
(* Model of the scoring and cumulative-standings engine of footyfun        *)
(* (src/footyfun/models.py): the scoring policies FootyPoints / EggPoints, *)
(* process_predictions, create_table and Statto.update_points /            *)
(* Statto.cummulate / Statto.stats over the PointInfo store of one league. *)
(*                                                                         *)
(* Dates are integers (days); a DateTimeField is counted in half days, so  *)
(* midnight of day d is 2*d and noon of day d is 2*d+1.                    *)
(***************************************************************************)
EXTENDS Integers, Sequences, FiniteSets, TLC

\* ---------------------------------------------------------------- bounds
\* last date the operations are called with
MaxDay == 2
\* largest score in the scoring probe (predictions and results)
MaxGoals == 4
\* largest quantum in the scoring probe
MaxQuantum == 2

\* ------------------------------------------------------- fixed scenario
\* League.date when the league is created: the cumulation origin
Origin == 0
\* nicknames of the competitors entered in the league
Competitors == {"A", "B"}
\* order in which a prediction_set query returns the competitors' predictions
CompetitorSeq == <<"A", "B">>
\* Game.matchtime of the competition's games, in half days, in query order:
\* noon of day 1, midnight at the start of day 2, noon of day 2
GameTime == <<3, 4, 5>>
Games == DOMAIN GameTime
Days == Origin..MaxDay
\* start=None of Statto.stats and create_table
None == -1
\* "no Prediction entity for this (game, competitor)"
NoPred == [ascore |-> -1, bscore |-> -1]
\* datetime(2000,1,1), the default start of create_table
Epoch == -1000

VARIABLES
    game,         \* Game.ascore / Game.bscore of every game
    predictions,  \* Prediction.ascore / .bscore per (game, competitor)
    pointinfo,    \* the PointInfo entities of the league
    cursor,       \* League.date
    last,         \* the last operation, its arguments and what it returned
    probe,        \* one scoring of one prediction on a fresh Points object
    running       \* the invocations of Statto in flight, store operation by
                  \* store operation, with the locals of each

vars == <<game, predictions, pointinfo, cursor, last, probe, running>>

\* ------------------------------------------------------------- PointInfo
Tally(p, gd, g, r, c) ==
    [perfect |-> p, goal_difference |-> gd, goals |-> g, result |-> r, count |-> c]

\* FootyPoints.__init__ / the PointInfo field defaults
ZeroTally == Tally(0, 0, 0, 0, 0)

\* the five tally fields of a PointInfo entity or Points object
TallyOf(x) == Tally(x.perfect, x.goal_difference, x.goals, x.result, x.count)

\* PointInfo.reset
reset(self) ==
    [self EXCEPT !.perfect = 0, !.goal_difference = 0, !.goals = 0,
                 !.result = 0, !.count = 0]

\* PointInfo.add
add(self, points) ==
    [self EXCEPT !.perfect = @ + points.perfect,
                 !.goal_difference = @ + points.goal_difference,
                 !.goals = @ + points.goals,
                 !.result = @ + points.result,
                 !.count = @ + points.count]

\* subtract with the operands the wrong way round
subtract_reversed(self, points) ==
    [self EXCEPT !.perfect = points.perfect - @,
                 !.goal_difference = points.goal_difference - @,
                 !.goals = points.goals - @,
                 !.result = points.result - @,
                 !.count = points.count - @]

\* PointInfo.subtract
subtract(self, points) ==
    [self EXCEPT !.perfect = @ - points.perfect,
                 !.goal_difference = @ - points.goal_difference,
                 !.goals = @ - points.goals,
                 !.result = @ - points.result,
                 !.count = @ - points.count]

\* PointInfo.initialise / FootyPoints.initialise
initialise(self, points) ==
    [self EXCEPT !.perfect = points.perfect,
                 !.goal_difference = points.goal_difference,
                 !.goals = points.goals,
                 !.result = points.result,
                 !.count = points.count]

\* PointInfo.all().filter('date =', d).filter('league =', league)
\*                 .filter('totals =', t) over the entities in store
Query(store, d, t) == {info \in store : info.date = d /\ info.totals = t}

\* the datastore key of a new entity: entities of the same (date, competitor,
\* totals) get the keys 0, 1, ... ; without duplicates the key is always 0
NewKey(store, d, who, t) ==
    CHOOSE k \in 0..Cardinality(store) :
        /\ \A info \in store :
              (info.date = d /\ info.competitor = who /\ info.totals = t)
                  => info.key # k
        /\ \A j \in 0..(k - 1) : \E info \in store :
              info.date = d /\ info.competitor = who /\ info.totals = t
                  /\ info.key = j

\* PointInfo() with league, competitor, date and totals set, not yet saved
NewPointInfo(store, d, who, t) ==
    [key |-> NewKey(store, d, who, t), date |-> d, competitor |-> who,
     totals |-> t, perfect |-> 0, goal_difference |-> 0, goals |-> 0,
     result |-> 0, count |-> 0]

\* The order in which a query returns entities is not fixed by the code, so
\* which of several entities of one competitor ends up in a dictionary built
\* from a query (first wins in update_points, last wins in cummulate and
\* stats) is a choice: a pick names one entity per (date, competitor, totals).
SameGroup(x, y) ==
    x.date = y.date /\ x.competitor = y.competitor /\ x.totals = y.totals

RECURSIVE Picks(_)
Picks(S) ==
    IF S = {} THEN {{}}
    ELSE LET r == CHOOSE x \in S : TRUE
             G == {x \in S : SameGroup(x, r)}
         IN  {P \cup {p} : P \in Picks(S \ G), p \in G}

\* dict([(t.competitor.nickname, t) for t in query]) under a pick
AsDict(query, pick) ==
    [who \in {info.competitor : info \in query} |->
        CHOOSE info \in query \cap pick : info.competitor = who]

\* ------------------------------------------------------ scoring policies
\* FootyPoints.update with the same-result credit of one quantum, not two
FootyPoints_update_single(self, prediction, result, quantum) ==
    LET pascore == prediction.ascore
        pbscore == prediction.bscore
        ascore  == result.ascore
        bscore  == result.bscore
        goals1 == IF pascore = ascore THEN self.goals + quantum ELSE self.goals
        goals2 == IF pbscore = bscore THEN goals1 + quantum ELSE goals1
        gd == IF pbscore - pascore = bscore - ascore
              THEN self.goal_difference + quantum ELSE self.goal_difference
        perfect == IF pascore = ascore /\ pbscore = bscore
                   THEN self.perfect + quantum ELSE self.perfect
        res == IF \/ (pascore > pbscore /\ ascore > bscore)
                  \/ (pascore < pbscore /\ ascore < bscore)
                  \/ (pascore = pbscore /\ ascore = bscore)
               THEN self.result + quantum ELSE self.result
    IN  [self EXCEPT !.count = @ + 1, !.goals = goals2, !.goal_difference = gd,
                     !.perfect = perfect, !.result = res]

\* the update whose goal difference test compares the sums of the two scores
FootyPoints_update_sum(self, prediction, result, quantum) ==
    LET pascore == prediction.ascore
        pbscore == prediction.bscore
        ascore  == result.ascore
        bscore  == result.bscore
        goals1 == IF pascore = ascore THEN self.goals + quantum ELSE self.goals
        goals2 == IF pbscore = bscore THEN goals1 + quantum ELSE goals1
        gd == IF pbscore + pascore = bscore + ascore
              THEN self.goal_difference + quantum ELSE self.goal_difference
        perfect == IF pascore = ascore /\ pbscore = bscore
                   THEN self.perfect + quantum ELSE self.perfect
        res == IF \/ (pascore > pbscore /\ ascore > bscore)
                  \/ (pascore < pbscore /\ ascore < bscore)
                  \/ (pascore = pbscore /\ ascore = bscore)
               THEN self.result + 2 * quantum ELSE self.result
    IN  [self EXCEPT !.count = @ + 1, !.goals = goals2, !.goal_difference = gd,
                     !.perfect = perfect, !.result = res]

\* FootyPoints.update: the tally self after scoring one prediction
FootyPoints_update(self, prediction, result, quantum) ==
    LET pascore == prediction.ascore
        pbscore == prediction.bscore
        ascore  == result.ascore
        bscore  == result.bscore
        \* Either teams goals right
        goals1 == IF pascore = ascore THEN self.goals + quantum ELSE self.goals
        goals2 == IF pbscore = bscore THEN goals1 + quantum ELSE goals1
        \* Goal difference
        gd == IF pbscore - pascore = bscore - ascore
              THEN self.goal_difference + quantum ELSE self.goal_difference
        \* Perfect score
        perfect == IF pascore = ascore /\ pbscore = bscore
                   THEN self.perfect + quantum ELSE self.perfect
        \* Same result
        res == IF \/ (pascore > pbscore /\ ascore > bscore)
                  \/ (pascore < pbscore /\ ascore < bscore)
                  \/ (pascore = pbscore /\ ascore = bscore)
               THEN self.result + 2 * quantum ELSE self.result
    IN  [self EXCEPT !.count = @ + 1, !.goals = goals2, !.goal_difference = gd,
                     !.perfect = perfect, !.result = res]

\* EggPoints.tolerance
tolerance == 3

\* abs()
abs(x) == IF x < 0 THEN -x ELSE x

\* EggPoints without its own update: the method inherited from FootyPoints
EggPoints_update_inherited(self, prediction, result, quantum) ==
    FootyPoints_update(self, prediction, result, quantum)

\* the update whose "both points close" delta is the larger of the two side
\* deltas instead of their sum
EggPoints_update_max(self, prediction, result, quantum) ==
    LET tolerance1 == tolerance + 1
        deltaA == abs(prediction.ascore - result.ascore)
        goals1 == IF deltaA <= tolerance
                  THEN self.goals + quantum * (tolerance1 - deltaA) ELSE self.goals
        deltaB == abs(prediction.bscore - result.bscore)
        goals2 == IF deltaB <= tolerance
                  THEN goals1 + quantum * (tolerance1 - deltaB) ELSE goals1
        deltaD == abs((prediction.bscore - prediction.ascore)
                      - (result.bscore - result.ascore))
        gd == IF deltaD <= tolerance
              THEN self.goal_difference + quantum * (tolerance1 - deltaD)
              ELSE self.goal_difference
        deltaP == IF deltaA >= deltaB THEN deltaA ELSE deltaB
        perfect == IF deltaP <= tolerance
                   THEN self.perfect + quantum * (tolerance1 - deltaP)
                   ELSE self.perfect
        res == IF \/ (prediction.ascore > prediction.bscore
                        /\ result.ascore > result.bscore)
                  \/ (prediction.ascore < prediction.bscore
                        /\ result.ascore < result.bscore)
                  \/ (prediction.ascore = prediction.bscore
                        /\ result.ascore = result.bscore)
               THEN self.result + 2 * quantum ELSE self.result
    IN  [self EXCEPT !.count = @ + 1, !.goals = goals2, !.goal_difference = gd,
                     !.perfect = perfect, !.result = res]

\* EggPoints.update: the tally self after scoring one prediction
EggPoints_update(self, prediction, result, quantum) ==
    LET tolerance1 == tolerance + 1
        \* Either teams points close
        deltaA == abs(prediction.ascore - result.ascore)
        goals1 == IF deltaA <= tolerance
                  THEN self.goals + quantum * (tolerance1 - deltaA) ELSE self.goals
        deltaB == abs(prediction.bscore - result.bscore)
        goals2 == IF deltaB <= tolerance
                  THEN goals1 + quantum * (tolerance1 - deltaB) ELSE goals1
        \* Point difference close
        deltaD == abs((prediction.bscore - prediction.ascore)
                      - (result.bscore - result.ascore))
        gd == IF deltaD <= tolerance
              THEN self.goal_difference + quantum * (tolerance1 - deltaD)
              ELSE self.goal_difference
        \* Both points close
        deltaP == abs(prediction.ascore - result.ascore)
                  + abs(prediction.bscore - result.bscore)
        perfect == IF deltaP <= tolerance
                   THEN self.perfect + quantum * (tolerance1 - deltaP)
                   ELSE self.perfect
        \* Same result
        res == IF \/ (prediction.ascore > prediction.bscore
                        /\ result.ascore > result.bscore)
                  \/ (prediction.ascore < prediction.bscore
                        /\ result.ascore < result.bscore)
                  \/ (prediction.ascore = prediction.bscore
                        /\ result.ascore = result.bscore)
               THEN self.result + 2 * quantum ELSE self.result
    IN  [self EXCEPT !.count = @ + 1, !.goals = goals2, !.goal_difference = gd,
                     !.perfect = perfect, !.result = res]

\* Competition.name of the league's competition; it has no 'egg' in it
cname == "footy"

\* Points(competition): the policy for a competition name ('egg' in name)
Points(competition) == IF competition = "egg" THEN "EggPoints" ELSE "FootyPoints"

\* update whose "same result" test knows the home win only
update_homewin(policy, self, prediction, result, quantum) ==
    LET scored == IF policy = "EggPoints"
                  THEN EggPoints_update(self, prediction, result, quantum)
                  ELSE FootyPoints_update(self, prediction, result, quantum)
    IN  [scored EXCEPT !.result =
            IF prediction.ascore > prediction.bscore /\ result.ascore > result.bscore
            THEN self.result + 2 * quantum ELSE self.result]

\* points.update(prediction, result, quantum) on a Points(cname) object
update(policy, self, prediction, result, quantum) ==
    IF policy = "EggPoints"
    THEN EggPoints_update(self, prediction, result, quantum)
    ELSE FootyPoints_update(self, prediction, result, quantum)

\* FootyPoints.set_total: the total of a tally
set_total(self) == self.goals + self.goal_difference + self.perfect + self.result

\* ---------------------------------------------------- process_predictions
\* result.prediction_set.filter('league =', league): the competitors with a
\* Prediction entity for game g, in query order
prediction_set(g) ==
    SelectSeq(CompetitorSeq, LAMBDA who : predictions[g][who] # NoPred)

\* the inner loop leaving after the first prediction of the game
score_game_first(g, whos, scores) ==
    IF whos = <<>> THEN scores
    ELSE LET who == Head(whos)
             points == IF who \in DOMAIN scores THEN scores[who] ELSE ZeroTally
             scored == update(Points(cname), points, predictions[g][who], game[g], 1)
         IN  [w \in (DOMAIN scores) \cup {who} |->
                 IF w = who THEN scored ELSE scores[w]]

\* the inner loop of process_predictions over the predictions of one game
RECURSIVE score_game(_, _, _)
score_game(g, whos, scores) ==
    IF whos = <<>> THEN scores
    ELSE LET who == Head(whos)
             \* scores.setdefault(nickname, Points(cname))
             points == IF who \in DOMAIN scores THEN scores[who] ELSE ZeroTally
             scored == update(Points(cname), points, predictions[g][who], game[g], 1)
         IN  score_game(g, Tail(whos),
                        [w \in (DOMAIN scores) \cup {who} |->
                            IF w = who THEN scored ELSE scores[w]])

\* process_predictions(results, league): nickname -> un-totalled tally
RECURSIVE process_predictions(_, _)
process_predictions(results, scores) ==
    IF results = <<>> THEN scores
    ELSE process_predictions(Tail(results),
             score_game(Head(results), prediction_set(Head(results)), scores))

\* the detail records of one game: a fresh Points object per prediction,
\* updated once and totalled
RECURSIVE details_game(_, _)
details_game(g, whos) ==
    IF whos = <<>> THEN <<>>
    ELSE LET who == Head(whos)
             points == update(Points(cname), ZeroTally, predictions[g][who], game[g], 1)
         IN  <<[points |-> points, game |-> g,
                preda |-> predictions[g][who].ascore,
                premodels |-> predictions[g][who].bscore,
                punter |-> who, total |-> set_total(points),
                matchtime |-> GameTime[g]]>>
             \o details_game(g, Tail(whos))

\* process_predictions(results, league, do_details=True): the details list
RECURSIVE process_predictions_details(_)
process_predictions_details(results) ==
    IF results = <<>> THEN <<>>
    ELSE details_game(Head(results), prediction_set(Head(results)))
             \o process_predictions_details(Tail(results))

\* the empty dictionary
EmptyDict == [w \in {} |-> ZeroTally]

\* the games of a query, in query order, that pass `if game.ascore >= 0`
Played(gs) == SelectSeq(gs, LAMBDA g : game[g].ascore >= 0)

GameSeq == [g \in Games |-> g]

\* Statto._days_games: matchtime >= tday and matchtime <= tnextday
_days_games(day) ==
    LET tday == 2 * day
        tnextday == tday + 2
    IN  SelectSeq(GameSeq, LAMBDA g : GameTime[g] >= tday /\ GameTime[g] <= tnextday)

\* create_table(league, start, end).scores: nickname -> tally (before set_total)
create_table(start, end) ==
    LET tstart == IF start = None THEN Epoch ELSE 2 * start
        tend   == 2 * end
        games  == SelectSeq(GameSeq,
                      LAMBDA g : GameTime[g] >= tstart /\ GameTime[g] <= tend)
    IN  process_predictions(Played(games), EmptyDict)

\* --------------------------------------------------------------- Statto
\* what `last` holds: the operation, its arguments, League.date when it was
\* called, the list it returned, and whether it repeats the call before it
Called(op, day, start, end, results) ==
    [op |-> op, day |-> day, start |-> start, end |-> end, results |-> results,
     from |-> IF op \in {"cummulate", "stats"} THEN cursor ELSE None,
     again |-> op = "update_points" /\ last.op = op /\ last.day = day]

\* update_points, "retrieve current stuff ... convert to a dictionary": the
\* first entity of every nickname; the others are deleted
current_dict(store, day, pick) == AsDict(Query(store, day, FALSE), pick)

\* delete_duplicates over a query without the filter on totals
delete_duplicates_anykind(store, day, current) ==
    store \ {info \in store :
                /\ info.date = day
                /\ info.competitor \notin DOMAIN current
                      \/ info # current[info.competitor]}

\* the store after the duplicates of the dictionary loop are deleted
delete_duplicates(store, day, current) ==
    store \ {info \in Query(store, day, FALSE) : info # current[info.competitor]}

\* converted without pinfo.reset(): the fresh tally is added to the old one
converted_accrete(store, day, current, who, point) ==
    add(IF who \in DOMAIN current
        THEN current[who]
        ELSE NewPointInfo(store, day, who, FALSE),
        point)

\* update_points, "Now convert Points into PointInfo": the entity saved for who
converted(store, day, current, who, point) ==
    add(IF who \in DOMAIN current
        THEN reset(current[who])
        ELSE NewPointInfo(store, day, who, FALSE),
        point)

\* save_points that never looks the nickname up: always a new PointInfo
save_points_insert(store, day, current, points) ==
    store \cup {add(NewPointInfo(store, day, who, FALSE), points[who])
                   : who \in DOMAIN points}

\* the store after pinfo.save() for every nickname in points
save_points(store, day, current, points) ==
    (store \ {current[who] : who \in (DOMAIN points) \cap (DOMAIN current)})
        \cup {converted(store, day, current, who, points[who]) : who \in DOMAIN points}

\* delete_unneeded that deletes nothing
delete_unneeded_none(store, day, points) == store

\* update_points, "finally delete any poininfo no longer needed"
delete_unneeded(store, day, points) ==
    store \ {pinfo \in Query(store, day, FALSE) : pinfo.competitor \notin DOMAIN points}

\* Statto.update_points(day) on store, the query order given by pick
update_points_store(store, day, pick) ==
    LET games   == Played(_days_games(day))
        \* get points for the day
        points  == process_predictions(games, EmptyDict)
        current == current_dict(store, day, pick)
        deduped == delete_duplicates(store, day, current)
        stored  == save_points(deduped, day, current, points)
    IN  delete_unneeded(stored, day, points)

\* day_total that starts every day from zero instead of the running total
day_total_nocarry(store, totals, pinfo, next, who) ==
    LET total == NewPointInfo(store, next, who, TRUE)
    IN  IF who \in DOMAIN pinfo THEN add(total, pinfo[who]) ELSE total

\* cummulate, the loop over entered: the running total of who after the day
day_total(store, totals, pinfo, next, who) ==
    LET total == IF who \in DOMAIN totals THEN totals[who]
                 ELSE NewPointInfo(store, next, who, TRUE)
    IN  IF who \in DOMAIN pinfo THEN add(total, pinfo[who]) ELSE total

\* cummulate, "save the records": the entities saved for the day
save_totals(store, totals, next) ==
    {initialise(NewPointInfo(store, next, who, TRUE), totals[who]) : who \in DOMAIN totals}

\* the walk with entered taken from the day's records only: a competitor
\* without a record that day is dropped from the totals
RECURSIVE cummulate_walk_scored(_, _, _, _, _)
cummulate_walk_scored(store, totals, current, end, pick) ==
    IF ~(current < end) THEN store
    ELSE LET next == current + 1
             pinfo == AsDict(Query(store, next, FALSE), pick)
             removed == store \ Query(store, next, TRUE)
             entered == DOMAIN pinfo
             summed == [who \in entered |-> day_total(removed, totals, pinfo, next, who)]
         IN  cummulate_walk_scored(removed \cup save_totals(removed, summed, next),
                                   summed, next, end, pick)

\* the while loop of Statto.cummulate: store after the walk from current to
\* end; totals is the in-memory dictionary nickname -> running total
RECURSIVE cummulate_walk(_, _, _, _, _)
cummulate_walk(store, totals, current, end, pick) ==
    IF ~(current < end) THEN store
    ELSE LET \* move on to next
             next == current + 1
             \* get points for current; turn points into a dictionary
             pinfo == AsDict(Query(store, next, FALSE), pick)
             \* remove existing totals
             removed == store \ Query(store, next, TRUE)
             \* now need the set of nicks in totals and pointinfo
             entered == (DOMAIN totals) \cup (DOMAIN pinfo)
             summed == [who \in entered |-> day_total(removed, totals, pinfo, next, who)]
         IN  cummulate_walk(removed \cup save_totals(removed, summed, next),
                            summed, next, end, pick)

\* cummulate without `if current >= end: return`
cummulate_store_noguard(store, date, end, pick) ==
    [pointinfo |-> cummulate_walk(store,
                       AsDict(Query(store, date, TRUE), pick), date, end, pick),
     cursor |-> end]

\* cummulate that never saves the league: League.date stays where it was
cummulate_store_nosave(store, date, end, pick) ==
    IF date >= end THEN [pointinfo |-> store, cursor |-> date]
    ELSE [pointinfo |-> cummulate_walk(store,
                            AsDict(Query(store, date, TRUE), pick), date, end, pick),
          cursor |-> date]

\* Statto.cummulate(end) on (store, date): the store and League.date after it
cummulate_store(store, date, end, pick) ==
    IF date >= end THEN [pointinfo |-> store, cursor |-> date]
    ELSE [pointinfo |-> cummulate_walk(store,
                            AsDict(Query(store, date, TRUE), pick), date, end, pick),
          cursor |-> end]

\* the result list of Statto.stats(start, end) read from store
stats_results(store, start, end, pick) ==
    LET spoints   == IF start # None THEN Query(store, start, TRUE) ELSE {}
        startinfo == AsDict(spoints, pick)
        epoints   == Query(store, end, TRUE)
    IN  {IF endinfo.competitor \in DOMAIN startinfo
         THEN subtract(endinfo, startinfo[endinfo.competitor])
         ELSE endinfo : endinfo \in epoints}

\* the row of FastTablePage.get with a sort tuple that leaves the punter out
to_points_nopunter(info) ==
    [nickname |-> info.competitor, points |-> TallyOf(info),
     total |-> set_total(TallyOf(info)),
     sort |-> <<set_total(TallyOf(info)), info.perfect, info.goal_difference,
                info.goals>>]

\* PointInfo.to_points and the row FastTablePage.get builds from it
to_points(info) ==
    [nickname |-> info.competitor, points |-> TallyOf(info),
     total |-> set_total(TallyOf(info)),
     sort |-> <<set_total(TallyOf(info)), info.perfect, info.goal_difference,
                info.goals, info.competitor>>]

\* FastTablePage.get: the scores built from the list stats returned
FastTablePage_scores(pinfo) == {to_points(info) : info \in pinfo}

\* create_table: the scores built from process_predictions
create_table_scores(start, end) ==
    LET scores == create_table(start, end)
    IN  {[nickname |-> punter, points |-> scores[punter],
          total |-> set_total(scores[punter]),
          sort |-> <<set_total(scores[punter]), scores[punter].perfect,
                     scores[punter].goal_difference, scores[punter].goals,
                     punter>>] : punter \in DOMAIN scores}

\* the nicknames in alphabetical order
Alphabetical == <<"A", "B">>

\* the order of the table on sort tuples: x comes before y when it is greater
\* on the first of the four numbers that differ, or equal on all four and
\* alphabetically first
Before(x, y) ==
    LET differ == {i \in 1..4 : x[i] # y[i]}
        first  == CHOOSE i \in differ : \A j \in differ : i <= j
        rank(who) == CHOOSE i \in 1..Len(Alphabetical) : Alphabetical[i] = who
    IN  IF differ # {} THEN x[first] > y[first] ELSE rank(x[5]) < rank(y[5])

\* the arrangements of a set of rows
Arrangements(scores) ==
    {seq \in [1..Cardinality(scores) -> scores] :
        \A i, j \in 1..Cardinality(scores) : i # j => seq[i] # seq[j]}

\* the ranked table: the rows in an arrangement that never puts a row behind
\* one it comes before
ranked(scores) ==
    CHOOSE seq \in Arrangements(scores) :
        \A i, j \in 1..Cardinality(scores) :
            i < j => ~Before(seq[j].sort, seq[i].sort)

\* ---------------------------------------------------------------- actions
\* the results entered for a game: none yet, or the final score
Unset == [ascore |-> -1, bscore |-> -1]

ResultChoices == {Unset, [ascore |-> 0, bscore |-> 0]}

\* the result of a game that has none yet is entered
set_result(g, r) ==
    /\ game[g] = Unset
    /\ r # Unset
    /\ game' = [game EXCEPT ![g] = r]
    /\ last' = Called("set_result", None, None, None, {})
    /\ UNCHANGED <<predictions, pointinfo, cursor, probe, running>>

\* the result of a game is withdrawn
withdraw_result(g) ==
    /\ game[g] # Unset
    /\ game' = [game EXCEPT ![g] = Unset]
    /\ last' = Called("withdraw_result", None, None, None, {})
    /\ UNCHANGED <<predictions, pointinfo, cursor, probe, running>>

update_points(day) ==
    /\ \E pick \in Picks(pointinfo) :
          pointinfo' = update_points_store(pointinfo, day, pick)
    /\ last' = Called("update_points", day, None, None, {})
    /\ UNCHANGED <<game, predictions, cursor, probe, running>>

cummulate(end) ==
    /\ \E pick \in Picks(pointinfo) :
          LET after == cummulate_store(pointinfo, cursor, end, pick)
          IN  /\ pointinfo' = after.pointinfo
              /\ cursor' = after.cursor
    /\ last' = Called("cummulate", None, None, end, {})
    /\ UNCHANGED <<game, predictions, probe, running>>

\* stats that saves the entities it subtracted the start totals from
stats_persist(start, end) ==
    /\ \E pick \in Picks(pointinfo) :
          LET after == cummulate_store(pointinfo, cursor, end, pick)
          IN  /\ cursor' = after.cursor
              /\ \E pick2 \in Picks(after.pointinfo) :
                    LET results == stats_results(after.pointinfo, start, end, pick2)
                    IN  /\ pointinfo' = (after.pointinfo
                                            \ Query(after.pointinfo, end, TRUE))
                                         \cup results
                        /\ last' = Called("stats", None, start, end, results)
    /\ UNCHANGED <<game, predictions, probe, running>>

stats(start, end) ==
    /\ \E pick \in Picks(pointinfo) :
          LET after == cummulate_store(pointinfo, cursor, end, pick)
          IN  /\ pointinfo' = after.pointinfo
              /\ cursor' = after.cursor
              /\ \E pick2 \in Picks(after.pointinfo) :
                    last' = Called("stats", None, start, end,
                                   stats_results(after.pointinfo, start, end, pick2))
    /\ UNCHANGED <<game, predictions, probe, running>>

\* one prediction is scored on a fresh Points(cname) object
score ==
    /\ probe.scored = FALSE
    /\ probe' = [probe EXCEPT
                    !.points = update(Points(probe.cname), ZeroTally,
                                      probe.prediction, probe.result, probe.quantum),
                    !.scored = TRUE]
    /\ UNCHANGED <<game, predictions, pointinfo, cursor, last, running>>

\* ------------------------------------------------------------ the system
\* the predictions entered before the games were played
PredictionTable ==
    <<[A |-> [ascore |-> 1, bscore |-> 0], B |-> NoPred],
      [A |-> [ascore |-> 0, bscore |-> 0], B |-> NoPred],
      [A |-> NoPred,                       B |-> [ascore |-> 1, bscore |-> 1]]>>

Idle == [cname |-> cname, prediction |-> NoPred, result |-> Unset,
         quantum |-> 0, points |-> ZeroTally, scored |-> TRUE]

\* nothing in flight
Quiet == [call |-> <<>>, overlapped |-> FALSE, before |-> {}]

NoCall == [op |-> "init", day |-> None, start |-> None, end |-> None,
           results |-> {}, from |-> None, again |-> FALSE]

InitLeague ==
    /\ game = [g \in Games |-> Unset]
    /\ predictions = PredictionTable
    /\ cursor = Origin
    /\ last = NoCall
    /\ running = Quiet

Init ==
    /\ InitLeague
    /\ pointinfo = {}
    /\ probe = Idle

Next ==
    \/ \E g \in Games, r \in ResultChoices : set_result(g, r)
    \/ \E day \in Days : update_points(day)
    \/ \E end \in Days : cummulate(end)
    \/ \E start \in {None} \cup Days, end \in Days : stats(start, end)

Spec == Init /\ [][Next]_vars

\* A store that already holds non-total entities, duplicates among them, for
\* the first day: what a crashed or concurrent writer can leave behind.
SeedDay == Origin + 1

SeedInfo(k, who, t) ==
    [key |-> k, date |-> SeedDay, competitor |-> who, totals |-> FALSE,
     perfect |-> t.perfect, goal_difference |-> t.goal_difference,
     goals |-> t.goals, result |-> t.result, count |-> t.count]

\* two different records for A and a record for B, who has no game that day;
\* or two records for A that differ in nothing but the key
SeedStores ==
    {{SeedInfo(0, "A", Tally(1, 1, 2, 2, 1)), SeedInfo(1, "A", Tally(0, 0, 1, 0, 1)),
      SeedInfo(0, "B", Tally(0, 1, 0, 2, 1))},
     {SeedInfo(0, "A", Tally(0, 0, 1, 0, 1)), SeedInfo(1, "A", Tally(0, 0, 1, 0, 1))}}

InitDup ==
    /\ InitLeague
    /\ pointinfo \in SeedStores
    /\ probe = Idle

\* the writers of the store on such a store, results being withdrawn as well
NextDup ==
    \/ \E g \in Games, r \in ResultChoices : set_result(g, r)
    \/ \E g \in Games : withdraw_result(g)
    \/ \E day \in Days : update_points(day)
    \/ \E end \in Days : cummulate(end)

SpecDup == InitDup /\ [][NextDup]_vars

\* A league in which both competitors predicted the first game alike, so that
\* their tallies can be equal field by field.
TiedPredictionTable ==
    <<[A |-> [ascore |-> 0, bscore |-> 0], B |-> [ascore |-> 0, bscore |-> 0]],
      [A |-> [ascore |-> 1, bscore |-> 0], B |-> NoPred],
      [A |-> NoPred,                       B |-> [ascore |-> 1, bscore |-> 1]]>>

InitRank ==
    /\ game = [g \in Games |-> Unset]
    /\ predictions = TiedPredictionTable
    /\ cursor = Origin
    /\ last = NoCall
    /\ pointinfo = {}
    /\ probe = Idle
    /\ running = Quiet

SpecRank == InitRank /\ [][Next]_vars

\* Scoring one prediction against one result, for every policy, score pair
\* and quantum within the bounds.
Scores == {[ascore |-> a, bscore |-> b] : a, b \in 0..MaxGoals}

InitScore ==
    /\ InitLeague
    /\ pointinfo = {}
    /\ probe \in [cname : {"footy", "egg"}, prediction : Scores, result : Scores,
                  quantum : 1..MaxQuantum, points : {ZeroTally}, scored : {FALSE}]

NextScore == score

SpecScore == InitScore /\ [][NextScore]_vars

\* ------------------------------------------- invocations that interleave
\* Two requests call Statto on the same league; every step below is one
\* store operation (a query, a save, a delete) of the method, with the
\* in-memory work that follows it.  No lock or transaction spans two steps.
Procs == {1, 2}

\* the locals of an invocation about to start
Local(op, day, start, end) ==
    [op |-> op, pc |-> "start", day |-> day, start |-> start, end |-> end,
     from |-> None, date |-> None, points |-> EmptyDict, current |-> EmptyDict,
     totals |-> EmptyDict, pinfo |-> EmptyDict, fetched |-> {}, todo |-> {},
     results |-> {}]

InFlight(p) == running.call[p].pc \notin {"start", "done"}

\* the invocation of p takes a step to the locals now
Goto(p, now) ==
    running' = [running EXCEPT
                   !.call[p] = now,
                   !.overlapped = @ \/ (running.call[p].pc = "start"
                                          /\ \E q \in Procs \ {p} : InFlight(q))]

\* entity.delete() and entity.save() address the entity by its key
SameEntity(x, y) == SameGroup(x, y) /\ x.key = y.key

Delete(store, info) == {x \in store : ~SameEntity(x, info)}

\* save that never overwrites the entity stored under the key
Put_keep(store, info) ==
    IF \E x \in store : SameEntity(x, info) THEN store ELSE store \cup {info}

Put(store, info) == Delete(store, info) \cup {info}

\* the next nickname a loop over a dictionary comes to
First(todo) ==
    CompetitorSeq[CHOOSE i \in 1..Len(CompetitorSeq) :
                     /\ CompetitorSeq[i] \in todo
                     /\ \A j \in 1..(i - 1) : CompetitorSeq[j] \notin todo]

\* update_points: the games of the day are read and the points computed
begin_update_points(p) ==
    LET me == running.call[p]
    IN  /\ me.op = "update_points" /\ me.pc = "start"
        /\ Goto(p, [me EXCEPT
                      !.points = process_predictions(Played(_days_games(me.day)),
                                                     EmptyDict),
                      !.pc = "query"])
        /\ UNCHANGED <<game, predictions, pointinfo, cursor, last, probe>>

\* where update_points goes once the duplicates are deleted
ToSave(me) ==
    IF DOMAIN me.points = {} THEN [me EXCEPT !.pc = "requery"]
    ELSE [me EXCEPT !.pc = "save", !.todo = DOMAIN me.points]

\* update_points, "retrieve current stuff": the query is run; current is the
\* dictionary, fetched the duplicates still to delete
query_current(p) ==
    LET me == running.call[p]
        found == Query(pointinfo, me.day, FALSE)
    IN  /\ me.op = "update_points" /\ me.pc = "query"
        /\ \E pick \in Picks(found) :
              LET current == AsDict(found, pick)
                  dups == {info \in found : info # current[info.competitor]}
                  now == [me EXCEPT !.current = current, !.fetched = dups]
              IN  Goto(p, IF dups = {} THEN ToSave(now)
                          ELSE [now EXCEPT !.pc = "dedup"])
        /\ UNCHANGED <<game, predictions, pointinfo, cursor, last, probe>>

\* update_points, `info.delete()` of one duplicate
delete_duplicate(p) ==
    LET me == running.call[p]
    IN  /\ me.op = "update_points" /\ me.pc = "dedup"
        /\ \E info \in me.fetched :
              /\ pointinfo' = Delete(pointinfo, info)
              /\ LET now == [me EXCEPT !.fetched = @ \ {info}]
                 IN  Goto(p, IF now.fetched = {} THEN ToSave(now) ELSE now)
        /\ UNCHANGED <<game, predictions, cursor, last, probe>>

\* update_points, `pinfo.save()` for one nickname
save_point(p) ==
    LET me == running.call[p]
        who == First(me.todo)
        now == [me EXCEPT !.todo = @ \ {who}]
    IN  /\ me.op = "update_points" /\ me.pc = "save"
        /\ pointinfo' = Put(pointinfo,
                            converted(pointinfo, me.day, me.current, who,
                                      me.points[who]))
        /\ Goto(p, IF now.todo = {} THEN [now EXCEPT !.pc = "requery"] ELSE now)
        /\ UNCHANGED <<game, predictions, cursor, last, probe>>

\* update_points, "finally delete": the query is run again
query_unneeded(p) ==
    LET me == running.call[p]
        unneeded == {pinfo \in Query(pointinfo, me.day, FALSE) :
                        pinfo.competitor \notin DOMAIN me.points}
    IN  /\ me.op = "update_points" /\ me.pc = "requery"
        /\ Goto(p, [me EXCEPT !.fetched = unneeded,
                              !.pc = IF unneeded = {} THEN "done" ELSE "purge"])
        /\ UNCHANGED <<game, predictions, pointinfo, cursor, last, probe>>

\* update_points, `pinfo.delete()` of one record no longer needed
delete_unneeded_one(p) ==
    LET me == running.call[p]
    IN  /\ me.op = "update_points" /\ me.pc = "purge"
        /\ \E info \in me.fetched :
              /\ pointinfo' = Delete(pointinfo, info)
              /\ LET now == [me EXCEPT !.fetched = @ \ {info}]
                 IN  Goto(p, IF now.fetched = {} THEN [now EXCEPT !.pc = "done"]
                             ELSE now)
        /\ UNCHANGED <<game, predictions, cursor, last, probe>>

\* where cummulate goes when its walk is over or not needed
AfterWalk(me) == [me EXCEPT !.pc = IF me.op = "stats" THEN "spoints" ELSE "done"]

\* cummulate: League.date is read and compared with end
begin_cummulate(p) ==
    LET me == running.call[p]
        now == [me EXCEPT !.from = cursor, !.date = cursor]
    IN  /\ me.op \in {"cummulate", "stats"} /\ me.pc = "start"
        /\ Goto(p, IF cursor >= me.end THEN AfterWalk(now)
                   ELSE [now EXCEPT !.pc = "totals"])
        /\ UNCHANGED <<game, predictions, pointinfo, cursor, last, probe>>

\* cummulate that starts its walk without the totals at the cursor
query_totals_empty(p) ==
    LET me == running.call[p]
    IN  /\ me.op \in {"cummulate", "stats"} /\ me.pc = "totals"
        /\ Goto(p, [me EXCEPT !.totals = EmptyDict, !.pc = "daily"])
        /\ UNCHANGED <<game, predictions, pointinfo, cursor, last, probe>>

\* cummulate, "get totals for current"
query_totals(p) ==
    LET me == running.call[p]
        found == Query(pointinfo, me.date, TRUE)
    IN  /\ me.op \in {"cummulate", "stats"} /\ me.pc = "totals"
        /\ \E pick \in Picks(found) :
              Goto(p, [me EXCEPT !.totals = AsDict(found, pick), !.pc = "daily"])
        /\ UNCHANGED <<game, predictions, pointinfo, cursor, last, probe>>

\* cummulate, "move on to next" and "get points for current"
query_daily(p) ==
    LET me == running.call[p]
        next == me.date + 1
        found == Query(pointinfo, next, FALSE)
    IN  /\ me.op \in {"cummulate", "stats"} /\ me.pc = "daily"
        /\ \E pick \in Picks(found) :
              Goto(p, [me EXCEPT !.date = next, !.pinfo = AsDict(found, pick),
                                 !.pc = "existing"])
        /\ UNCHANGED <<game, predictions, pointinfo, cursor, last, probe>>

\* cummulate, the loop over entered, once the existing totals are removed
ToSaveTotals(store, me) ==
    LET entered == (DOMAIN me.totals) \cup (DOMAIN me.pinfo)
        summed == [who \in entered |->
                      day_total(store, me.totals, me.pinfo, me.date, who)]
    IN  [me EXCEPT !.totals = summed, !.todo = entered,
                   !.pc = IF entered # {} THEN "savetotals"
                          ELSE IF me.date < me.end THEN "daily" ELSE "league"]

\* cummulate without "remove existing totals"
query_existing_none(p) ==
    LET me == running.call[p]
    IN  /\ me.op \in {"cummulate", "stats"} /\ me.pc = "existing"
        /\ Goto(p, ToSaveTotals(pointinfo, me))
        /\ UNCHANGED <<game, predictions, pointinfo, cursor, last, probe>>

\* "remove existing totals" that removes the totals of the day before
query_existing_previous(p) ==
    LET me == running.call[p]
        found == Query(pointinfo, me.date - 1, TRUE)
        now == [me EXCEPT !.fetched = found]
    IN  /\ me.op \in {"cummulate", "stats"} /\ me.pc = "existing"
        /\ Goto(p, IF found = {} THEN ToSaveTotals(pointinfo, now)
                   ELSE [now EXCEPT !.pc = "remove"])
        /\ UNCHANGED <<game, predictions, pointinfo, cursor, last, probe>>

\* cummulate, "remove existing totals": the query is run
query_existing(p) ==
    LET me == running.call[p]
        found == Query(pointinfo, me.date, TRUE)
        now == [me EXCEPT !.fetched = found]
    IN  /\ me.op \in {"cummulate", "stats"} /\ me.pc = "existing"
        /\ Goto(p, IF found = {} THEN ToSaveTotals(pointinfo, now)
                   ELSE [now EXCEPT !.pc = "remove"])
        /\ UNCHANGED <<game, predictions, pointinfo, cursor, last, probe>>

\* cummulate, `info.delete()` of one existing total
delete_existing(p) ==
    LET me == running.call[p]
    IN  /\ me.op \in {"cummulate", "stats"} /\ me.pc = "remove"
        /\ \E info \in me.fetched :
              /\ pointinfo' = Delete(pointinfo, info)
              /\ LET now == [me EXCEPT !.fetched = @ \ {info}]
                 IN  Goto(p, IF now.fetched = {} THEN ToSaveTotals(pointinfo', now)
                             ELSE now)
        /\ UNCHANGED <<game, predictions, cursor, last, probe>>

\* cummulate, "save the records": `info.save()` of one total
save_total(p) ==
    LET me == running.call[p]
        who == First(me.todo)
        now == [me EXCEPT !.todo = @ \ {who}]
    IN  /\ me.op \in {"cummulate", "stats"} /\ me.pc = "savetotals"
        /\ pointinfo' = pointinfo \cup
              {initialise(NewPointInfo(pointinfo, me.date, who, TRUE), me.totals[who])}
        /\ Goto(p, IF now.todo # {} THEN now
                   ELSE [now EXCEPT !.pc = IF me.date < me.end THEN "daily"
                                           ELSE "league"])
        /\ UNCHANGED <<game, predictions, cursor, last, probe>>

\* cummulate, "update date": `self.league.save()`
save_league(p) ==
    LET me == running.call[p]
    IN  /\ me.op \in {"cummulate", "stats"} /\ me.pc = "league"
        /\ cursor' = me.end
        /\ Goto(p, AfterWalk(me))
        /\ UNCHANGED <<game, predictions, pointinfo, last, probe>>

\* stats: the totals at start are read into startinfo
query_start(p) ==
    LET me == running.call[p]
        found == IF me.start # None THEN Query(pointinfo, me.start, TRUE) ELSE {}
    IN  /\ me.op = "stats" /\ me.pc = "spoints"
        /\ \E pick \in Picks(found) :
              Goto(p, [me EXCEPT !.current = AsDict(found, pick), !.pc = "epoints"])
        /\ UNCHANGED <<game, predictions, pointinfo, cursor, last, probe>>

\* stats: the totals at end are read and the results built
query_end(p) ==
    LET me == running.call[p]
        epoints == Query(pointinfo, me.end, TRUE)
    IN  /\ me.op = "stats" /\ me.pc = "epoints"
        /\ Goto(p, [me EXCEPT
                      !.results = {IF endinfo.competitor \in DOMAIN me.current
                                   THEN subtract(endinfo,
                                                 me.current[endinfo.competitor])
                                   ELSE endinfo : endinfo \in epoints},
                      !.pc = "done"])
        /\ UNCHANGED <<game, predictions, pointinfo, cursor, last, probe>>

\* every game has its result
AllPlayed == [g \in Games |-> [ascore |-> 0, bscore |-> 0]]

\* the daily records of every day, written by update_points one day after
\* the other
RECURSIVE Dailies(_)
Dailies(day) ==
    IF day <= Origin THEN {}
    ELSE LET store == Dailies(day - 1)
         IN  update_points_store(store, day, store)

\* two invocations of update_points for the same day, on an empty store or
\* on one with duplicates, or two invocations of cummulate
RaceCalls ==
    {[call |-> [p \in Procs |-> Local("update_points", SeedDay, None, None)],
      overlapped |-> FALSE, before |-> store] : store \in {{}} \cup SeedStores}
    \cup
    {[call |-> [p \in Procs |-> Local("cummulate", None, None, end[p])],
      overlapped |-> FALSE, before |-> Dailies(MaxDay)] :
        end \in [Procs -> (Origin + 1)..MaxDay]}

InitRace ==
    /\ game = AllPlayed
    /\ predictions = PredictionTable
    /\ cursor = Origin
    /\ last = NoCall
    /\ probe = Idle
    /\ running \in RaceCalls
    /\ pointinfo = running.before

NextRace ==
    \E p \in Procs :
        \/ begin_update_points(p)
        \/ query_current(p)
        \/ delete_duplicate(p)
        \/ save_point(p)
        \/ query_unneeded(p)
        \/ delete_unneeded_one(p)
        \/ begin_cummulate(p)
        \/ query_totals(p)
        \/ query_daily(p)
        \/ query_existing(p)
        \/ delete_existing(p)
        \/ save_total(p)
        \/ save_league(p)

SpecRace == InitRace /\ [][NextRace]_vars

\* Two requests call stats on the same league, whose days all have their
\* daily records; the league is cumulated up to its cursor.
Cumulated(date) == cummulate_store(Dailies(MaxDay), Origin, date, Dailies(MaxDay))

StatsCalls ==
    {[call |-> [p \in Procs |-> Local("stats", None, start[p], end[p])],
      overlapped |-> FALSE, before |-> Cumulated(date).pointinfo] :
        start \in [Procs -> {None, Origin + 1}],
        end \in [Procs -> (Origin + 1)..MaxDay],
        date \in {Origin, MaxDay}}

InitStats ==
    /\ game = AllPlayed
    /\ predictions = PredictionTable
    /\ last = NoCall
    /\ probe = Idle
    /\ running \in StatsCalls
    /\ pointinfo = running.before
    /\ cursor = IF Query(pointinfo, MaxDay, TRUE) = {} THEN Origin ELSE MaxDay

NextStats ==
    \E p \in Procs :
        \/ begin_cummulate(p)
        \/ query_totals(p)
        \/ query_daily(p)
        \/ query_existing(p)
        \/ delete_existing(p)
        \/ save_total(p)
        \/ save_league(p)
        \/ query_start(p)
        \/ query_end(p)

SpecStats == InitStats /\ [][NextStats]_vars

\* Results entered one score at a time: Game.ascore and Game.bscore are two
\* fields with the default -1 each, and nothing ties them together.
enter_score(g, side) ==
    /\ game[g][side] = -1
    /\ game' = [game EXCEPT ![g][side] = 0]
    /\ last' = Called("enter_score", None, None, None, {})
    /\ UNCHANGED <<predictions, pointinfo, cursor, probe, running>>

NextPartial ==
    \/ \E g \in Games, side \in {"ascore", "bscore"} : enter_score(g, side)
    \/ \E day \in Days : update_points(day)

SpecPartial == Init /\ [][NextPartial]_vars

\* Two calls of cummulate, one after the other, store operation by store
\* operation.  The league is cumulated up to some date; its cursor is that
\* date, or an earlier one that a call finishing late has saved over it, so
\* that total records exist after the cursor.
WalkCalls ==
    {[call |-> [p \in Procs |-> Local("cummulate", None, None, end[p])],
      overlapped |-> FALSE, before |-> Cumulated(date).pointinfo] :
        end \in [Procs -> (Origin + 1)..MaxDay], date \in Days}

\* the invocation of p starts when no other is in flight
begin_alone(p) ==
    /\ \A q \in Procs : ~InFlight(q)
    /\ begin_cummulate(p)

InitWalk ==
    /\ game = AllPlayed
    /\ predictions = PredictionTable
    /\ last = NoCall
    /\ probe = Idle
    /\ running \in WalkCalls
    /\ pointinfo = running.before
    /\ cursor \in {date \in Days :
                      /\ Query(pointinfo, date, TRUE) # {} \/ date = Origin
                      /\ date > Origin \/ Query(pointinfo, Origin + 1, TRUE) = {}}

NextWalk ==
    \E p \in Procs :
        \/ begin_alone(p)
        \/ query_totals(p)
        \/ query_daily(p)
        \/ query_existing(p)
        \/ delete_existing(p)
        \/ save_total(p)
        \/ save_league(p)

SpecWalk == InitWalk /\ [][NextWalk]_vars

\* process_predictions on its own: any predictions of the two competitors,
\* two possible results of the first game, any list of the games.
PredChoices == {NoPred, [ascore |-> 0, bscore |-> 0], [ascore |-> 1, bscore |-> 0]}

\* the lists a query of games can return: every game at most once, in order
GameLists == {SelectSeq(GameSeq, LAMBDA g : g \in gs) : gs \in SUBSET Games}

\* process_predictions(results, league) is called with details
aggregate(results) ==
    /\ last.op = "init"
    /\ last' = Called("process_predictions", None, None, None,
                      [games |-> results,
                       scores |-> process_predictions(results, EmptyDict),
                       details |-> process_predictions_details(results)])
    /\ UNCHANGED <<game, predictions, pointinfo, cursor, probe, running>>

InitAggregate ==
    /\ game \in {AllPlayed, [AllPlayed EXCEPT ![1] = [ascore |-> 1, bscore |-> 0]]}
    /\ predictions \in [Games -> [Competitors -> PredChoices]]
    /\ pointinfo = {}
    /\ cursor = Origin
    /\ last = NoCall
    /\ probe = Idle
    /\ running = Quiet

NextAggregate == \E results \in GameLists : aggregate(results)

SpecAggregate == InitAggregate /\ [][NextAggregate]_vars

\* A call of cummulate(end) that can stop after any of its store operations
\* (the request is cancelled or runs out of time), and a second call of
\* cummulate(end) that starts once the first has stopped or finished.
RetryCalls ==
    {[call |-> [p \in Procs |-> Local("cummulate", None, None, end)],
      overlapped |-> FALSE, before |-> Cumulated(date).pointinfo] :
        end \in (Origin + 1)..MaxDay, date \in Days}

InitRetry ==
    /\ game = AllPlayed
    /\ predictions = PredictionTable
    /\ last = NoCall
    /\ probe = Idle
    /\ running \in RetryCalls
    /\ pointinfo = running.before
    /\ cursor \in {date \in Days :
                      /\ Query(pointinfo, date, TRUE) # {} \/ date = Origin
                      /\ date > Origin \/ Query(pointinfo, Origin + 1, TRUE) = {}}

begin_first == begin_cummulate(1)

\* the first call stops where it is
interrupt ==
    /\ InFlight(1) /\ running.call[1].pc # "stopped"
    /\ running' = [running EXCEPT !.call[1].pc = "stopped"]
    /\ UNCHANGED <<game, predictions, pointinfo, cursor, last, probe>>

begin_again ==
    /\ running.call[1].pc \in {"stopped", "done"}
    /\ begin_cummulate(2)

NextRetry ==
    \/ begin_first
    \/ interrupt
    \/ begin_again
    \/ \E p \in Procs :
          \/ query_totals(p)
          \/ query_daily(p)
          \/ query_existing(p)
          \/ delete_existing(p)
          \/ save_total(p)
          \/ save_league(p)

SpecRetry == InitRetry /\ [][NextRetry]_vars

\* ------------------------------------------------------------ properties
\* the entities of one (date, competitor, kind)
InfoAt(d, who, t) ==
    {info \in pointinfo : info.date = d /\ info.competitor = who /\ info.totals = t}

\* the tally recorded for (date, competitor, kind); zero when there is none
TallyAt(d, who, t) ==
    IF InfoAt(d, who, t) = {} THEN ZeroTally
    ELSE TallyOf(CHOOSE info \in InfoAt(d, who, t) : TRUE)

Plus(x, y) ==
    Tally(x.perfect + y.perfect, x.goal_difference + y.goal_difference,
          x.goals + y.goals, x.result + y.result, x.count + y.count)

Minus(x, y) ==
    Tally(x.perfect - y.perfect, x.goal_difference - y.goal_difference,
          x.goals - y.goals, x.result - y.result, x.count - y.count)

\* the competitors with an entity of the kind at the date
Present(d, t) == {info.competitor : info \in Query(pointinfo, d, t)}

\* C1: in every reachable state, for every date d with Origin < d <= cursor and
\* every competitor, the total at d is the total at d-1 plus the daily record
\* at d, field by field, a missing record counting as zero.
PrefixSumLaw ==
    \A d \in (Origin + 1)..cursor, who \in Competitors :
        TallyAt(d, who, TRUE) = Plus(TallyAt(d - 1, who, TRUE), TallyAt(d, who, FALSE))

\* C2: there is at most one non-total and at most one total record for every
\* (competitor, league, date).
RecordUniqueness ==
    \A x, y \in pointinfo :
        (x.date = y.date /\ x.competitor = y.competitor /\ x.totals = y.totals)
            => x = y

\* update_points was repeated for a day that is already cumulated, and a
\* competitor has both a daily and a total record there
RecordUniquenessWitness ==
    /\ last.op = "update_points" /\ last.again /\ last.day <= cursor
    /\ \E who \in Competitors :
          InfoAt(last.day, who, FALSE) # {} /\ InfoAt(last.day, who, TRUE) # {}

\* C3: a call of update_points(day) that directly follows a call for the same
\* day (so games and predictions are unchanged) leaves the non-total records
\* of the day exactly as they were, keys and field values.
UpdatePointsIdempotent ==
    [][last'.again =>
          Query(pointinfo', last'.day, FALSE) = Query(pointinfo, last'.day, FALSE)]_vars

\* update_points was called again for a day that has records
UpdatePointsIdempotentWitness ==
    last.op = "update_points" /\ last.again /\ Query(pointinfo, last.day, FALSE) # {}

\* C4: stats(start, end) returns one entry for each competitor with a total at
\* end and none for the others; the entry is total(end) - total(start) when the
\* competitor has a total at start, and total(end) otherwise.
StatsRangeCorrect ==
    last.op = "stats" =>
        \A who \in Competitors :
            LET entries == {r \in last.results : r.competitor = who}
                atEnd   == InfoAt(last.end, who, TRUE)
                atStart == IF last.start = None THEN {}
                           ELSE InfoAt(last.start, who, TRUE)
            IN  /\ Cardinality(entries) = IF atEnd = {} THEN 0 ELSE 1
                /\ \A r \in entries :
                      TallyOf(r) = IF atStart # {}
                                   THEN Minus(TallyAt(last.end, who, TRUE),
                                              TallyAt(last.start, who, TRUE))
                                   ELSE TallyAt(last.end, who, TRUE)

\* stats(1, 2) returned a difference for a competitor present at both dates
\* and the unchanged total for a competitor present only at the end
StatsRangeCorrectWitness ==
    /\ last.op = "stats" /\ last.start = Origin + 1 /\ last.end = Origin + 2
    /\ Present(last.start, TRUE) = {"A"}
    /\ Present(last.end, TRUE) = {"A", "B"}
    /\ TallyAt(last.start, "A", TRUE).count > 0
    /\ TallyAt(last.end, "A", TRUE).count > TallyAt(last.start, "A", TRUE).count
    /\ TallyAt(last.end, "B", TRUE).count > 0
    /\ Cardinality(last.results) = 2

\* every daily record is what update_points would write now
DailiesCurrent ==
    \A d \in Days : update_points_store(pointinfo, d, pointinfo) = pointinfo

\* C5: when update_points ran for every day before the cumulation, the fast
\* table built from stats(start, end) and the slow table create_table(start,
\* end) have the same competitors with the same tallies and totals.
CrossPathEquivalence ==
    (last.op = "stats" /\ DailiesCurrent /\ PrefixSumLaw)
        => FastTablePage_scores(last.results)
               = create_table_scores(last.start, last.end)

\* C6: after cummulate(end) called with cursor c < end, for every date d in
\* (c, end] the totals at d are one record for each competitor with a total at
\* d-1 or a daily record at d, equal to the total at d-1 plus the daily record
\* at d (zero for a missing one).
CumulationWalk ==
    (last.op = "cummulate" /\ last.from < last.end) =>
        \A d \in (last.from + 1)..last.end :
            /\ Present(d, TRUE) = Present(d - 1, TRUE) \cup Present(d, FALSE)
            /\ \A who \in Competitors :
                  /\ Cardinality(InfoAt(d, who, TRUE)) <= 1
                  /\ TallyAt(d, who, TRUE)
                        = Plus(TallyAt(d - 1, who, TRUE), TallyAt(d, who, FALSE))

\* the example of the cumulation: one walk over two days, A alone on the first
\* day, A and B on the second
CumulationWalkWitness ==
    /\ last.op = "cummulate" /\ last.from = Origin /\ last.end = Origin + 2
    /\ Present(Origin + 1, FALSE) = {"A"} /\ Present(Origin + 2, FALSE) = {"A", "B"}
    /\ Present(Origin + 1, TRUE) = {"A"} /\ Present(Origin + 2, TRUE) = {"A", "B"}
    /\ TallyAt(Origin + 1, "A", TRUE).count = 1
    /\ TallyAt(Origin + 2, "A", TRUE).count = 2
    /\ TallyAt(Origin + 2, "B", TRUE).count = 1

\* C7: cummulate(end) with end at or before the cursor leaves every record and
\* the cursor unchanged.
CummulateNoOp ==
    [][(last'.op = "cummulate" /\ last'.end <= cursor)
          => (pointinfo' = pointinfo /\ cursor' = cursor)]_vars

\* cummulate was called with an end before the cursor, on a store with totals
CummulateNoOpWitness ==
    /\ last.op = "cummulate" /\ last.end < last.from /\ cursor = last.from
    /\ Query(pointinfo, cursor, TRUE) # {}

\* C8: the cursor never decreases, and after cummulate(end) with end greater
\* than the cursor it equals end.
CursorMonotone ==
    [][/\ cursor' >= cursor
       /\ (last'.op = "cummulate" /\ last'.end > cursor) => cursor' = last'.end]_vars

\* cummulate advanced the cursor from a date after the origin
CursorMonotoneWitness ==
    /\ last.op = "cummulate" /\ Origin < last.from /\ last.from < last.end
    /\ cursor = last.end

\* the games update_points(day) reads for who: in the day's window, played,
\* and predicted by who
Contributing(day, who) ==
    {g \in Games : /\ 2 * day <= GameTime[g] /\ GameTime[g] <= 2 * day + 2
                   /\ game[g].ascore >= 0
                   /\ predictions[g][who] # NoPred}

\* the tally of one prediction scored alone
Single(g, who) == update(Points(cname), ZeroTally, predictions[g][who], game[g], 1)

RECURSIVE SumSingles(_, _)
SumSingles(gs, who) ==
    IF gs = {} THEN ZeroTally
    ELSE LET g == CHOOSE x \in gs : TRUE
         IN  Plus(Single(g, who), SumSingles(gs \ {g}, who))

Outcome(a, b) == IF a > b THEN "home" ELSE IF a < b THEN "away" ELSE "draw"

\* C10: one update of a zero tally under the standard policy with quantum q
\* gives count 1, goals q for each side predicted exactly, goal_difference q
\* iff the differences are equal, perfect q iff both sides are exact, and
\* result 2q iff the outcome categories are equal.
StandardScoring ==
    (probe.scored /\ probe.cname = "footy") =>
        LET pa == probe.prediction.ascore
            pb == probe.prediction.bscore
            a  == probe.result.ascore
            b  == probe.result.bscore
            q  == probe.quantum
            sides == Cardinality({side \in {"a", "b"} :
                        IF side = "a" THEN pa = a ELSE pb = b})
        IN  /\ probe.points.count = 1
            /\ probe.points.goals = q * sides
            /\ probe.points.goal_difference = (IF pb - pa = b - a THEN q ELSE 0)
            /\ probe.points.perfect = (IF pa = a /\ pb = b THEN q ELSE 0)
            /\ probe.points.result
                  = (IF Outcome(pa, pb) = Outcome(a, b) THEN 2 * q ELSE 0)

\* the example: prediction (2,1) against result (2,1) with quantum 1
StandardScoringWitness ==
    /\ probe.scored /\ probe.cname = "footy" /\ probe.quantum = 1
    /\ probe.prediction = [ascore |-> 2, bscore |-> 1]
    /\ probe.result = [ascore |-> 2, bscore |-> 1]
    /\ probe.points = Tally(1, 1, 2, 2, 1)
    /\ set_total(probe.points) = 6

\* the credit of the tolerance-based policy for an absolute difference delta
credit(delta, q) == IF delta <= 3 THEN q * (3 + 1 - delta) ELSE 0

Dist(x, y) == IF x >= y THEN x - y ELSE y - x

\* C11: one update of a zero tally under the tolerance-based policy (T = 3)
\* with quantum q gives count 1, goals credit(|pa-a|) + credit(|pb-b|),
\* goal_difference the credit of the distance between the predicted and the
\* actual score difference, perfect credit(|pa-a| + |pb-b|), and result 2q iff
\* the outcome categories are equal.
ToleranceScoring ==
    (probe.scored /\ probe.cname = "egg") =>
        LET pa == probe.prediction.ascore
            pb == probe.prediction.bscore
            a  == probe.result.ascore
            b  == probe.result.bscore
            q  == probe.quantum
        IN  /\ probe.points.count = 1
            /\ probe.points.goals = credit(Dist(pa, a), q) + credit(Dist(pb, b), q)
            /\ probe.points.goal_difference = credit(Dist(pb - pa, b - a), q)
            /\ probe.points.perfect = credit(Dist(pa, a) + Dist(pb, b), q)
            /\ probe.points.result
                  = (IF Outcome(pa, pb) = Outcome(a, b) THEN 2 * q ELSE 0)

\* the example: prediction (1,1) against result (3,2) with quantum 1
ToleranceScoringWitness ==
    /\ probe.scored /\ probe.cname = "egg" /\ probe.quantum = 1
    /\ probe.prediction = [ascore |-> 1, bscore |-> 1]
    /\ probe.result = [ascore |-> 3, bscore |-> 2]
    /\ probe.points = Tally(1, 3, 5, 0, 1)

Swap(s) == [ascore |-> s.bscore, bscore |-> s.ascore]

\* C12: under both policies, scoring the prediction (pb, pa) against the
\* result (b, a) gives the same perfect and the same result contribution as
\* scoring (pa, pb) against (a, b).
HomeAwaySymmetry ==
    probe.scored =>
        LET swapped == update(Points(probe.cname), ZeroTally,
                              Swap(probe.prediction), Swap(probe.result),
                              probe.quantum)
        IN  /\ swapped.perfect = probe.points.perfect
            /\ swapped.result = probe.points.result

\* a home win predicted and played, the sides not interchangeable, with
\* credit for perfect and result under the tolerance-based policy
HomeAwaySymmetryWitness ==
    /\ probe.scored /\ probe.cname = "egg"
    /\ probe.prediction = [ascore |-> 2, bscore |-> 1]
    /\ probe.result = [ascore |-> 1, bscore |-> 0]
    /\ probe.points.perfect = 2 * probe.quantum
    /\ probe.points.result = 2 * probe.quantum

\* the tables built in this state: the fast table from the list stats just
\* returned, and the slow table of every range
Tables ==
    (IF last.op = "stats" THEN {FastTablePage_scores(last.results)} ELSE {})
        \cup {create_table_scores(start, end) : start \in {None} \cup Days, end \in Days}

\* C13: every table has one row per competitor, the row's sort key is
\* (total, perfect, goal_difference, goals, nickname), the keys of two rows
\* differ and one of them comes before the other, and the ranked table is
\* strictly ordered: descending on the four numbers, ties on all four broken
\* by ascending nickname.
RankingDeterminism ==
    /\ last.op = "stats" =>
          \A who \in Competitors :
              Cardinality({info \in last.results : info.competitor = who}) <= 1
    /\ \A scores \in Tables :
          /\ \A r \in scores :
                r.sort = <<r.total, r.points.perfect, r.points.goal_difference,
                           r.points.goals, r.nickname>>
          /\ \A r1, r2 \in scores :
                r1 # r2 => /\ r1.nickname # r2.nickname
                           /\ r1.sort # r2.sort
                           /\ Before(r1.sort, r2.sort) # Before(r2.sort, r1.sort)
          /\ \A i, j \in 1..Cardinality(scores) :
                i < j => Before(ranked(scores)[i].sort, ranked(scores)[j].sort)

\* the fast table after stats has two rows equal on all four numbers, and the
\* ranked table puts A first
RankingDeterminismWitness ==
    /\ last.op = "stats"
    /\ LET scores == FastTablePage_scores(last.results)
       IN  /\ Cardinality(scores) = 2
           /\ \A r1, r2 \in scores :
                 /\ r1.total = r2.total /\ r1.total > 0
                 /\ r1.points = r2.points
           /\ ranked(scores)[1].nickname = "A"
           /\ ranked(scores)[2].nickname = "B"

Finished == \A p \in Procs : running.call[p].pc = "done"

\* the stores the two invocations leave when one runs after the other
SerialStores ==
    LET run(store, date, p) ==
            IF running.call[p].op = "update_points"
            THEN {[pointinfo |-> update_points_store(store, running.call[p].day, pick),
                   cursor |-> date] : pick \in Picks(store)}
            ELSE {cummulate_store(store, date, running.call[p].end, pick)
                     : pick \in Picks(store)}
        both(p, q) ==
            UNION {run(first.pointinfo, first.cursor, q)
                      : first \in run(running.before, Origin, p)}
    IN  {after.pointinfo : after \in both(1, 2) \cup both(2, 1)}

\* some (date, competitor, kind) has two records
Duplicated == \E x, y \in pointinfo : SameGroup(x, y) /\ x # y

\* a record every serial execution keeps is missing
Lost ==
    \E d \in Days, who \in Competitors, t \in BOOLEAN :
        /\ \A store \in SerialStores :
              \E x \in store : x.date = d /\ x.competitor = who /\ x.totals = t
        /\ InfoAt(d, who, t) = {}

\* C14: two invocations of update_points for the same day, or of cummulate,
\* that interleave store operation by store operation can leave two records
\* of one kind for a (competitor, date) or lose a record a serial execution
\* keeps (WriterRaceWitness is such a state); two invocations that do not
\* interleave leave a store some serial execution leaves, without either.
WriterRace ==
    (Finished /\ ~running.overlapped) =>
        /\ pointinfo \in SerialStores
        /\ ~Duplicated /\ ~Lost

\* both invocations of update_points ran on an empty store, interleaved, and
\* left two daily records for A
WriterRaceWitness ==
    /\ Finished /\ running.overlapped /\ running.before = {}
    /\ \A p \in Procs : running.call[p].op = "update_points"
    /\ Cardinality(InfoAt(SeedDay, "A", FALSE)) = 2

\* League.date before the two invocations started
CursorBefore == IF Query(running.before, MaxDay, TRUE) = {} THEN Origin ELSE MaxDay

\* the lists stats returns to p when the two calls run one after the other
SerialAnswers(p) ==
    LET me == running.call[p]
        answers(store, date) ==
            UNION {{stats_results(after.pointinfo, me.start, me.end, pick2)
                       : pick2 \in Picks(after.pointinfo)}
                   : after \in {cummulate_store(store, date, me.end, pick)
                                   : pick \in Picks(store)}}
        others == {cummulate_store(running.before, CursorBefore,
                                   running.call[q].end, pick)
                      : q \in Procs \ {p}, pick \in Picks(running.before)}
    IN  answers(running.before, CursorBefore)
            \cup UNION {answers(first.pointinfo, first.cursor) : first \in others}

\* C15: after any interleaving of two stats calls, also calls with end later
\* than the cursor, there is at most one total record per (competitor, date),
\* the prefix-sum law holds, and each call returned what it returns in some
\* serial execution.
ConcurrentStats ==
    Finished =>
        /\ \A x, y \in pointinfo : (SameGroup(x, y) /\ x.totals) => x = y
        /\ PrefixSumLaw
        /\ \A p \in Procs : running.call[p].results \in SerialAnswers(p)

\* the games with both scores known that who predicted, out of a set of games
Completed(gs, who) ==
    {g \in gs : game[g].ascore >= 0 /\ game[g].bscore >= 0
                   /\ predictions[g][who] # NoPred}

\* the games a query with the time window [from, to] returns
Within(from, to) == {g \in Games : from <= GameTime[g] /\ GameTime[g] <= to}

\* C16: update_points and create_table pass to process_predictions only
\* games with both scores >= 0: the daily records update_points(day) wrote
\* and the rows of every create_table(start, end) count, for each competitor,
\* exactly the predicted games of the window that have both scores.
OnlyCompletedScored ==
    /\ last.op = "update_points" =>
          /\ \A i \in DOMAIN Played(_days_games(last.day)) :
                game[Played(_days_games(last.day))[i]].bscore >= 0
          /\ \A who \in Competitors :
                TallyAt(last.day, who, FALSE).count
                    = Cardinality(Completed(Within(2 * last.day, 2 * last.day + 2), who))
    /\ \A start \in {None} \cup Days, end \in Days, who \in Competitors :
          LET scores == create_table(start, end)
              from == IF start = None THEN Epoch ELSE 2 * start
          IN  (IF who \in DOMAIN scores THEN scores[who].count ELSE 0)
                  = Cardinality(Completed(Within(from, 2 * end), who))

\* C17: every daily record, every total record and every tally stats(start,
\* end) returns, for any start and end, has count >= 0.
CountNonNegative ==
    /\ \A info \in pointinfo : info.count >= 0
    /\ last.op = "stats" => \A r \in last.results : r.count >= 0

\* no prediction was scored on a date after start and up to end
EmptyRange(start, end) ==
    \A d \in ((IF start = None THEN Origin ELSE start) + 1)..end :
        \A info \in Query(pointinfo, d, FALSE) : info.count = 0

\* C18: stats(start, end) over a range of dates in which no prediction was
\* scored, start = end included, returns an empty list.
EmptyRangeEmptyList ==
    (last.op = "stats" /\ EmptyRange(last.start, last.end)) => last.results = {}

\* the total records of date d are the running totals of the walk, one each
Rewritten(me, d) ==
    /\ me.fetched = {} /\ me.todo = {}
    /\ \A info \in Query(pointinfo, d, TRUE) :
          /\ info.competitor \in DOMAIN me.totals
          /\ TallyOf(info) = TallyOf(me.totals[info.competitor])
    /\ \A who \in DOMAIN me.totals : Cardinality(InfoAt(d, who, TRUE)) = 1

\* C19: a cummulate walk starts at the cursor, moves on one date at a time up
\* to end, deletes and saves only total records of the date it is at, which
\* is after the cursor it started from, and moves on to the next date (or
\* saves the league) only when the totals of its date are all rewritten.
TotalsInDateOrder ==
    [][\A p \in Procs :
          LET me == running.call[p]
              now == running'.call[p]
              touched == (pointinfo \ pointinfo') \cup (pointinfo' \ pointinfo)
          IN  now # me =>
                /\ me.pc = "start" => (now.from = cursor /\ now.date = cursor)
                /\ me.pc # "start" => now.from = me.from
                /\ me.pc = "daily" =>
                      /\ me.date < me.end /\ now.date = me.date + 1
                      /\ me.date > me.from => Rewritten(me, me.date)
                /\ me.pc \notin {"start", "daily"} => now.date = me.date
                /\ me.pc = "league" => (me.date = me.end /\ Rewritten(me, me.date))
                /\ \A x \in touched :
                      /\ me.pc \in {"remove", "savetotals"}
                      /\ x.totals /\ x.date = me.date /\ x.date > me.from]_vars

\* a walk that started at a cursor with totals after it has removed the
\* existing totals of the next date, is saving the new ones, and has left the
\* totals at its starting cursor alone
TotalsInDateOrderWitness ==
    \E p \in Procs :
        LET me == running.call[p]
        IN  /\ me.pc = "savetotals" /\ me.from = Origin + 1 /\ me.date = Origin + 2
            /\ Cardinality(me.todo) = 1
            /\ Query(running.before, me.date, TRUE) # {}
            /\ Cardinality(Query(pointinfo, me.date, TRUE)) = 1
            /\ Query(pointinfo, me.from, TRUE) = Query(running.before, me.from, TRUE)
            /\ Query(pointinfo, me.from, TRUE) # {}

\* C20: update_points(day) creates, changes or deletes only non-total records
\* of that date; every total record, every non-total record of another date
\* and the cursor are unchanged.
UpdatePointsFrame ==
    [][last'.op = "update_points" =>
          /\ cursor' = cursor
          /\ \A d \in Days : Query(pointinfo', d, TRUE) = Query(pointinfo, d, TRUE)
          /\ \A d \in Days \ {last'.day} :
                Query(pointinfo', d, FALSE) = Query(pointinfo, d, FALSE)
          /\ \A x \in (pointinfo \ pointinfo') \cup (pointinfo' \ pointinfo) :
                ~x.totals /\ x.date = last'.day]_vars

\* update_points wrote the records of a cumulated day while total records of
\* that day and daily records of another day are in the store
UpdatePointsFrameWitness ==
    /\ last.op = "update_points" /\ last.day = SeedDay + 1 /\ ~last.again
    /\ cursor = last.day
    /\ Query(pointinfo, last.day, FALSE) # {}
    /\ Query(pointinfo, last.day, TRUE) # {}
    /\ Query(pointinfo, SeedDay, FALSE) # {}
    /\ \E who \in Competitors :
          TallyAt(last.day, who, TRUE)
              # Plus(TallyAt(SeedDay, who, TRUE), TallyAt(last.day, who, FALSE))

\* C21: stats(start, end) changes the store exactly as cummulate(end) does:
\* afterwards the cursor is at least end, and nothing changes when the cursor
\* was already at or after end; the subtraction of the start totals is never
\* saved, so the same call repeated returns the same list and the total
\* records at end keep their cumulative values.
StatsEffect ==
    [][last'.op = "stats" =>
          /\ cursor' >= last'.end
          /\ cursor >= last'.end => (pointinfo' = pointinfo /\ cursor' = cursor)
          /\ \E pick \in Picks(pointinfo) :
                cummulate_store(pointinfo, cursor, last'.end, pick)
                    = [pointinfo |-> pointinfo', cursor |-> cursor']
          /\ (last.op = "stats" /\ last.start = last'.start /\ last.end = last'.end)
                => /\ last'.results = last.results
                   /\ Query(pointinfo', last'.end, TRUE)
                         = Query(pointinfo, last'.end, TRUE)]_vars

\* stats(1, 2) on a league already cumulated up to 2 returned for A the
\* difference of the totals, and the total record of A at 2 still holds the
\* cumulative tally
StatsEffectWitness ==
    /\ last.op = "stats" /\ last.start = Origin + 1 /\ last.end = Origin + 2
    /\ last.from >= last.end
    /\ TallyAt(last.start, "A", TRUE).count > 0
    /\ TallyAt(last.end, "A", TRUE)
          = Plus(TallyAt(last.start, "A", TRUE), TallyAt(last.end, "A", FALSE))
    /\ \E r \in last.results :
          /\ r.competitor = "A"
          /\ r.count > 0
          /\ r.count < TallyAt(last.end, "A", TRUE).count

\* the field-wise sum of the detail records of who
RECURSIVE SumDetails(_, _)
SumDetails(details, who) ==
    IF details = <<>> THEN ZeroTally
    ELSE IF Head(details).punter = who
         THEN Plus(Head(details).points, SumDetails(Tail(details), who))
         ELSE SumDetails(Tail(details), who)

\* C22: process_predictions returns for each competitor with a prediction on
\* a game of the list the field-wise sum of the tallies of those predictions
\* scored alone, its count their number, and no entry for a competitor
\* without one; the detail records are one per (game, prediction) and those
\* of a competitor sum field-wise to the competitor's tally.
AggregationSum ==
    last.op = "process_predictions" =>
        LET results == last.results.games
            scores  == last.results.scores
            details == last.results.details
            listed  == {results[i] : i \in DOMAIN results}
            mine(who) == {g \in listed : predictions[g][who] # NoPred}
        IN  /\ \A who \in Competitors :
                  IF mine(who) = {} THEN who \notin DOMAIN scores
                  ELSE /\ who \in DOMAIN scores
                       /\ scores[who] = SumSingles(mine(who), who)
                       /\ scores[who].count = Cardinality(mine(who))
                       /\ SumDetails(details, who) = scores[who]
            /\ DOMAIN scores \subseteq Competitors
            /\ \A g \in listed, who \in Competitors :
                  Cardinality({i \in DOMAIN details :
                                  details[i].game = g /\ details[i].punter = who})
                      = IF predictions[g][who] # NoPred THEN 1 ELSE 0

\* all three games are aggregated; A predicted all of them, one perfectly and
\* one wrongly, B only the last
AggregationSumWitness ==
    /\ last.op = "process_predictions" /\ Len(last.results.games) = 3
    /\ game[1] = [ascore |-> 1, bscore |-> 0]
    /\ predictions[1] = [A |-> [ascore |-> 0, bscore |-> 0], B |-> NoPred]
    /\ predictions[2] = [A |-> [ascore |-> 0, bscore |-> 0], B |-> NoPred]
    /\ predictions[3] = [A |-> [ascore |-> 1, bscore |-> 0],
                         B |-> [ascore |-> 0, bscore |-> 0]]
    /\ last.results.scores["A"] = Tally(1, 1, 4, 2, 3)
    /\ last.results.scores["B"].count = 1
    /\ Len(last.results.details) = 4

\* the days whose update_points passes game g to process_predictions
DaysOf(g) ==
    {d \in Days : \E i \in DOMAIN Played(_days_games(d)) : Played(_days_games(d))[i] = g}

RECURSIVE SumDailyCount(_, _)
SumDailyCount(days, who) ==
    IF days = {} THEN 0
    ELSE LET d == CHOOSE x \in days : TRUE
         IN  TallyAt(d, who, FALSE).count + SumDailyCount(days \ {d}, who)

\* C23: every game is in the game set of update_points for at most one date,
\* a game at midnight included, so that once update_points has run for every
\* day the counts of the daily records of a competitor add up to the number
\* of completed games the competitor predicted.
GameOneDay ==
    /\ \A g \in Games : Cardinality(DaysOf(g)) <= 1
    /\ DailiesCurrent =>
          \A who \in Competitors :
              SumDailyCount(Days, who) = Cardinality(Completed(Games, who))

\* what one uninterrupted cummulate(end) makes of the store and the cursor
\* the calls started from
Uninterrupted ==
    {cummulate_store(running.before, running.call[1].from, running.call[1].end, pick)
        : pick \in Picks(running.before)}

\* C24: when a cummulate(end) walk stopped after any of its store operations
\* and cummulate(end) was then run again to the end, the total records and
\* the cursor are those of one uninterrupted run, and no (competitor, date)
\* has two total records.
InterruptedWalkRecovers ==
    (running.call[1].pc \in {"stopped", "done"} /\ running.call[2].pc = "done") =>
        /\ [pointinfo |-> pointinfo, cursor |-> cursor] \in Uninterrupted
        /\ \A x, y \in pointinfo : (SameGroup(x, y) /\ x.totals) => x = y

\* the first walk from the origin stopped on the second day with one total
\* of that day saved and one not; the second call has finished
InterruptedWalkRecoversWitness ==
    /\ running.call[1].pc = "stopped" /\ running.call[1].from = Origin
    /\ running.call[1].date = Origin + 2 /\ running.call[1].end = Origin + 2
    /\ Cardinality(running.call[1].todo) = 1
    /\ Cardinality(DOMAIN running.call[1].totals) = 2
    /\ running.call[2].pc = "done" /\ running.call[2].from = Origin
    /\ cursor = Origin + 2
    /\ Cardinality(Query(pointinfo, Origin + 2, TRUE)) = 2

\* C25: for cursor < e1 < e2 and unchanged daily records, cummulate(e1)
\* followed by cummulate(e2) leaves the total records and the cursor that
\* cummulate(e2) alone leaves.
CumulationComposes ==
    \A p, q \in Procs :
        (/\ Finished
         /\ running.call[p].from < running.call[p].end
         /\ running.call[q].from = running.call[p].end
         /\ running.call[p].end < running.call[q].end)
        => [pointinfo |-> pointinfo, cursor |-> cursor]
              \in {cummulate_store(running.before, running.call[p].from,
                                   running.call[q].end, pick)
                      : pick \in Picks(running.before)}

\* cummulate(1) ran from the origin and cummulate(2) after it; A, with
\* predictions on both days, has a total of three predictions at the end
CumulationComposesWitness ==
    /\ Finished /\ cursor = Origin + 2
    /\ \E p, q \in Procs :
          /\ running.call[p].from = Origin /\ running.call[p].end = Origin + 1
          /\ running.call[q].from = Origin + 1 /\ running.call[q].end = Origin + 2
    /\ TallyAt(Origin + 1, "A", TRUE).count = 2
    /\ TallyAt(Origin + 2, "A", TRUE).count = 3
    /\ TallyAt(Origin + 2, "B", TRUE).count = 1

NonNegative(t) ==
    /\ t.perfect >= 0 /\ t.goal_difference >= 0 /\ t.goals >= 0
    /\ t.result >= 0 /\ t.count >= 0

\* C26: for every date d with Origin < d < cursor, every competitor with a
\* total record at d has one at d+1; so for start <= end in the cumulated
\* range nobody is present at start and absent at end, and every tally
\* stats(start, end) returns has all five fields >= 0.
TotalsGrow ==
    /\ \A d \in (Origin + 1)..(cursor - 1) :
          Present(d, TRUE) \subseteq Present(d + 1, TRUE)
    /\ \A start, end \in (Origin + 1)..cursor :
          start <= end => Present(start, TRUE) \subseteq Present(end, TRUE)
    /\ (last.op = "stats" /\ (last.start = None \/ last.start <= last.end))
          => \A r \in last.results : NonNegative(TallyOf(r))

\* A scored on the first day only and B on the second only; stats(1, 2)
\* returned the zero tally for A, carried over, and B's points
TotalsGrowWitness ==
    /\ last.op = "stats" /\ last.start = Origin + 1 /\ last.end = Origin + 2
    /\ cursor = Origin + 2
    /\ Present(Origin + 1, TRUE) = {"A"} /\ Present(Origin + 2, TRUE) = {"A", "B"}
    /\ Present(Origin + 2, FALSE) = {"B"}
    /\ \E r \in last.results : r.competitor = "A" /\ TallyOf(r) = ZeroTally
    /\ \E r \in last.results : r.competitor = "B" /\ r.count = 1

\* C27: under the standard policy with quantum 1, one prediction scored on a
\* zero tally has goal_difference credit only with result credit, no
\* goal_difference credit when exactly one side is right, all four credits
\* when both sides are right; its total is one of 0, 1, 2, 3, 6 and is 6
\* exactly when the prediction is perfect.
CreditsDependent ==
    (probe.scored /\ probe.cname = "footy" /\ probe.quantum = 1) =>
        LET points == probe.points
            exact == probe.prediction = probe.result
        IN  /\ points.goal_difference > 0 => points.result > 0
            /\ points.goals = 1 => points.goal_difference = 0
            /\ points.goals = 2
                  => /\ points.goal_difference = 1 /\ points.perfect = 1
                     /\ points.result = 2
            /\ set_total(points) \in {0, 1, 2, 3, 6}
            /\ set_total(points) = 6 <=> exact
            /\ exact <=> points.perfect = 1

\* the home score and the winner right, the away score wrong: goals and
\* result credit without goal_difference credit, total 3
CreditsDependentWitness ==
    /\ probe.scored /\ probe.cname = "footy" /\ probe.quantum = 1
    /\ probe.prediction = [ascore |-> 2, bscore |-> 1]
    /\ probe.result = [ascore |-> 2, bscore |-> 0]
    /\ probe.points = Tally(0, 0, 1, 2, 1)
    /\ set_total(probe.points) = 3

\* C28: under the tolerance-based policy, one prediction scored on a zero
\* tally has perfect <= goal_difference and 2 * perfect <= goals, and its
\* total is at most 18 * quantum, with equality exactly when both predicted
\* scores equal the actual scores.
ToleranceOrdering ==
    (probe.scored /\ probe.cname = "egg") =>
        LET points == probe.points
            q == probe.quantum
            sideA == credit(Dist(probe.prediction.ascore, probe.result.ascore), q)
            sideB == credit(Dist(probe.prediction.bscore, probe.result.bscore), q)
        IN  /\ points.perfect <= points.goal_difference
            /\ points.perfect <= sideA /\ points.perfect <= sideB
            /\ 2 * points.perfect <= points.goals
            /\ set_total(points) <= 18 * q
            /\ set_total(points) = 18 * q <=> probe.prediction = probe.result

\* both sides one goal short with quantum 2: perfect credit 4, below the
\* goal_difference credit 8 and each side's credit 6; total 28 of 36
ToleranceOrderingWitness ==
    /\ probe.scored /\ probe.cname = "egg" /\ probe.quantum = 2
    /\ probe.prediction = [ascore |-> 1, bscore |-> 1]
    /\ probe.result = [ascore |-> 2, bscore |-> 2]
    /\ probe.points = Tally(4, 8, 12, 4, 1)
    /\ set_total(probe.points) = 28

====
